---- MODULE Spec2Model ----
(***************************************************************************)
(* Model of pysg/drawing/container.py: the container base class            *)
(* (GContainerBase), its three layout strategies (GContainerRow,           *)
(* GContainerColumn, GcontainerGrid), their property setters, the          *)
(* membership operations and draw.                                         *)
(*                                                                         *)
(* One container object is modelled.  Tuples are 1-based here, so the      *)
(* Python s[0], s[1] are s[1], s[2]; loop indices i, j stay 0-based.       *)
(***************************************************************************)
EXTENDS Integers, Sequences, FiniteSets, TLC

VARIABLES
    kind,             \* which class was instantiated: "Row", "Column", "Grid"
    _size,            \* self._size
    _position,        \* self._position
    _align,           \* self._align
    _fill_direction,  \* self._fill_direction
    _overflow,        \* self._overflow
    _padding,         \* self._padding
    _spacing,         \* self._spacing
    _objects,         \* self._objects, in insertion order: <<[id, size], ...>>
    last,             \* the last call made: [op, arg, raised]
    drawn,            \* what the last call, if it was draw, did: [status, cells]
    origin            \* history: how the container was built and used so far

config == <<kind, _size, _position, _align, _fill_direction, _overflow,
            _padding, _spacing>>
vars == <<kind, _size, _position, _align, _fill_direction, _overflow,
          _padding, _spacing, _objects, last, drawn, origin>>

-----------------------------------------------------------------------------
(* Bounds and input sets *)

MaxMembers == 4
LayoutMembers == 5

Kinds == {"Row", "Column", "Grid"}

\* the enums of lines 16-40
GAlign == {"NoAlign", "Top", "TopLeft", "TopRight", "Center", "Left", "Right",
           "Bottom", "BottomLeft", "BottomRight"}
GFillDirection == {"TopLeft", "TopRight", "Left", "Right", "BottomLeft",
                   "BottomRight"}
GOverflow == {"Visible", "Hidden"}

\* values the callers pass; "Invalid" stands for any object that is not a
\* member of the enum asked for
SizeInputs == {<<0, 10>>, <<-5, 5>>, <<10, 10>>, <<100, 50>>}
PositionInputs == {<<20, 30>>, <<-5, 0>>, <<0, -5>>}
AlignInputs == {"NoAlign", "Top", "Invalid"}
FillInputs == GFillDirection \cup {"Invalid"}
OverflowInputs == GOverflow \cup {"Invalid"}
PaddingInputs == {-1, 5}
SpacingInputs == {-1, 0}
Drawables == {1, 2}
ShapeSizes == {30}
LayoutSizeInputs == {<<100, 50>>, <<50, 100>>}
LayoutPositionInputs == {<<0, 0>>, <<20, 30>>}
LayoutPaddingInputs == {0, 5}
LayoutSpacingInputs == {0, 10}
LayoutShapeSizes == {10, 30}

-----------------------------------------------------------------------------
(* Bookkeeping of calls *)

NoDraw == [status |-> "none", cells |-> << >>]

Call(op, arg, raised) == [op |-> op, arg |-> arg, raised |-> raised]

\* origin: "invalid" once the constructor was given a config the data model
\* rejects; "posalign" while a validly built container has only seen position
\* and align calls; "valid" otherwise.
NextOrigin(op) ==
    IF origin = "invalid" THEN "invalid"
    ELSE IF op \in {"position", "align"} THEN origin
    ELSE "valid"

ValidConfig(s, p, a, pad) ==
    /\ s[1] > 0 /\ s[2] > 0
    /\ (a = "NoAlign") => (p[1] >= 0 /\ p[2] >= 0)
    /\ pad >= 0

\* a raise leaves the object as the statements before it left it; the
\* setters below all raise before their assignment
Raise(op, arg) ==
    /\ last' = Call(op, arg, TRUE)
    /\ drawn' = NoDraw
    /\ origin' = NextOrigin(op)

Return(op, arg) ==
    /\ last' = Call(op, arg, FALSE)
    /\ drawn' = NoDraw
    /\ origin' = NextOrigin(op)

-----------------------------------------------------------------------------
(* Fill-direction collapse of the three setters *)

RowCollapse(f) ==
    IF (f = "TopLeft") \/ (f = "BottomLeft") THEN "Left"
    ELSE IF (f = "TopRight") \/ (f = "BottomRight") THEN "Right"
    ELSE f

\* ColumnCollapse without its elif branch
ColumnCollapseNoRight(f) ==
    IF (f = "TopLeft") \/ (f = "BottomLeft") THEN "Left"
    ELSE f

ColumnCollapse(f) ==
    IF (f = "TopLeft") \/ (f = "BottomLeft") THEN "Left"
    ELSE IF (f = "TopRight") \/ (f = "BottomRight") THEN "Right"
    ELSE f

GridCollapse(f) ==
    IF f = "Left" THEN "TopLeft"
    ELSE IF f = "Right" THEN "TopRight"
    ELSE f

\* the setter of the class that was instantiated
Collapse(k, f) ==
    IF k = "Row" THEN RowCollapse(f)
    ELSE IF k = "Column" THEN ColumnCollapse(f)
    ELSE GridCollapse(f)

-----------------------------------------------------------------------------
(* Construction *)

\* GContainerBase.__init__ stores its arguments without a check; the
\* subclasses pass no spacing (default 5) and no fill_direction to it.
BaseInit(s, p, a, o, pad) ==
    /\ _objects = << >>
    /\ _size = s
    /\ _position = p
    /\ _align = a
    /\ _overflow = o
    /\ _padding = pad
    /\ _spacing = 5

\* GContainerRow/Column/Grid.__init__: super().__init__(...), then the
\* fill_direction setter.
Construct(k, s, p, a, f, o, pad) ==
    /\ kind = k
    /\ BaseInit(s, p, a, o, pad)
    /\ _fill_direction = Collapse(k, f)
    /\ last = Call("__init__", [size |-> s, position |-> p, align |-> a,
                                fill_direction |-> f, overflow |-> o,
                                padding |-> pad], FALSE)
    /\ drawn = NoDraw
    /\ origin = IF ValidConfig(s, p, a, pad) THEN "posalign" ELSE "invalid"

Init ==
    \E k \in Kinds, s \in SizeInputs, p \in PositionInputs,
       a \in AlignInputs \cap GAlign, f \in GFillDirection,
       o \in GOverflow, pad \in PaddingInputs :
        Construct(k, s, p, a, f, o, pad)

-----------------------------------------------------------------------------
(* Property getters *)

size == _position

position == _position

len == Len(_objects)

-----------------------------------------------------------------------------
(* Property setters *)

SetSize(s) ==
    IF (s[1] <= 0) \/ (s[2] <= 0)
    THEN /\ Raise("size", s)
         /\ UNCHANGED <<config, _objects>>
    ELSE /\ _size' = s
         /\ Return("size", s)
         /\ UNCHANGED <<kind, _position, _align, _fill_direction, _overflow,
                        _padding, _spacing, _objects>>

\* SetPosition testing p[0] only
SetPositionXOnly(p) ==
    IF _align = "NoAlign" /\ (p[1] < 0)
    THEN /\ Raise("position", p)
         /\ UNCHANGED <<config, _objects>>
    ELSE /\ _position' = p
         /\ Return("position", p)
         /\ UNCHANGED <<kind, _size, _align, _fill_direction, _overflow,
                        _padding, _spacing, _objects>>

SetPosition(p) ==
    IF _align = "NoAlign" /\ ((p[1] < 0) \/ (p[2] < 0))
    THEN /\ Raise("position", p)
         /\ UNCHANGED <<config, _objects>>
    ELSE /\ _position' = p
         /\ Return("position", p)
         /\ UNCHANGED <<kind, _size, _align, _fill_direction, _overflow,
                        _padding, _spacing, _objects>>

SetAlign(a) ==
    IF a \notin GAlign
    THEN /\ Raise("align", a)
         /\ UNCHANGED <<config, _objects>>
    ELSE /\ _align' = a
         /\ Return("align", a)
         /\ UNCHANGED <<kind, _size, _position, _fill_direction, _overflow,
                        _padding, _spacing, _objects>>

SetFillDirection(f) ==
    IF f \notin GFillDirection
    THEN /\ Raise("fill_direction", f)
         /\ UNCHANGED <<config, _objects>>
    ELSE /\ _fill_direction' = Collapse(kind, f)
         /\ Return("fill_direction", f)
         /\ UNCHANGED <<kind, _size, _position, _align, _overflow,
                        _padding, _spacing, _objects>>

SetOverflow(o) ==
    IF o \notin GOverflow
    THEN /\ Raise("overflow", o)
         /\ UNCHANGED <<config, _objects>>
    ELSE /\ _overflow' = o
         /\ Return("overflow", o)
         /\ UNCHANGED <<kind, _size, _position, _align, _fill_direction,
                        _padding, _spacing, _objects>>

\* SetPadding assigning before it checks
SetPaddingAssignFirst(p) ==
    /\ _padding' = p
    /\ IF p < 0 THEN Raise("padding", p) ELSE Return("padding", p)
    /\ UNCHANGED <<kind, _size, _position, _align, _fill_direction,
                   _overflow, _spacing, _objects>>

SetPadding(p) ==
    IF p < 0
    THEN /\ Raise("padding", p)
         /\ UNCHANGED <<config, _objects>>
    ELSE /\ _padding' = p
         /\ Return("padding", p)
         /\ UNCHANGED <<kind, _size, _position, _align, _fill_direction,
                        _overflow, _spacing, _objects>>

SetSpacing(s) ==
    IF s < 0
    THEN /\ Raise("spacing", s)
         /\ UNCHANGED <<config, _objects>>
    ELSE /\ _spacing' = s
         /\ Return("spacing", s)
         /\ UNCHANGED <<kind, _size, _position, _align, _fill_direction,
                        _overflow, _padding, _objects>>

-----------------------------------------------------------------------------
(* Membership *)

Ids(objs) == {objs[n].id : n \in 1..Len(objs)}

Remove(objs, d) == SelectSeq(objs, LAMBDA o : o.id # d)

\* enter(obj): obj has identity d and a shape of size s
Enter(d, s) ==
    IF d \in Ids(_objects)
    THEN /\ Raise("enter", d)
         /\ UNCHANGED <<config, _objects>>
    ELSE /\ _objects' = Append(_objects, [id |-> d, size |-> s])
         /\ Return("enter", d)
         /\ UNCHANGED config

\* Leave without its membership test
LeaveUnchecked(d) ==
    /\ _objects' = Remove(_objects, d)
    /\ Return("leave", d)
    /\ UNCHANGED config

Leave(d) ==
    IF d \notin Ids(_objects)
    THEN /\ Raise("leave", d)
         /\ UNCHANGED <<config, _objects>>
    ELSE /\ _objects' = Remove(_objects, d)
         /\ Return("leave", d)
         /\ UNCHANGED config

-----------------------------------------------------------------------------
(* draw: the layout each strategy computes.  The pygame calls themselves   *)
(* are not modelled; a cell records what would be passed to them.          *)

Max(a, b) == IF a >= b THEN a ELSE b
Min(a, b) == IF a <= b THEN a ELSE b

\* biggest_size: the sizes sorted in reverse, first element
RECURSIVE BiggestSize(_)
BiggestSize(objs) ==
    IF Len(objs) = 1 THEN objs[1].size
    ELSE Max(objs[1].size, BiggestSize(Tail(objs)))

Cell(o, i, j, x_l, y_l, visible) ==
    [obj |-> o.id, size |-> o.size, i |-> i, j |-> j, x_l |-> x_l,
     y_l |-> y_l, visible |-> visible]

\* offset of slot n along an axis, from the start edge and from the far edge
FromStart(origin_, n, b) == origin_ + (n * b) + (n * _spacing) + _padding
FromEnd(origin_, extent, n, b) ==
    (origin_ + extent) - (n * b) - (n * _spacing) - _padding - b

\* GContainerRow.draw, lines 258-279
RowX(i, b) ==
    IF _fill_direction = "Left"
    THEN FromStart(_position[1], i, b)
    ELSE FromEnd(_position[1], _size[1], i, b)

\* RowVisible culling a slot that ends exactly on the far edge
RowVisibleStrict(x_l, b) ==
    IF _overflow = "Hidden"
    THEN IF _fill_direction = "Right"
         THEN ~(x_l < _position[1])
         ELSE ~(x_l + b >= _position[1] + _size[1])
    ELSE TRUE

RowVisible(x_l, b) ==
    IF _overflow = "Hidden"
    THEN IF _fill_direction = "Right"
         THEN ~(x_l < _position[1])
         ELSE ~(x_l + b > _position[1] + _size[1])
    ELSE TRUE

RowCells(objs) ==
    LET b == BiggestSize(objs)
    IN  [n \in 1..Len(objs) |->
            LET i == n - 1
                x_l == RowX(i, b)
                y_l == _position[2] + _padding
            IN  Cell(objs[n], i, 0, x_l, y_l, RowVisible(x_l, b))]

\* GContainerColumn.draw, lines 368-389
ColumnY(i, b) ==
    IF _fill_direction = "Left"
    THEN FromStart(_position[2], i, b)
    ELSE FromEnd(_position[2], _size[2], i, b)

ColumnVisible(y_l, b) ==
    IF _overflow = "Hidden"
    THEN IF _fill_direction = "Right"
         THEN ~(y_l < _position[2])
         ELSE ~(y_l + b > _position[2] + _size[2])
    ELSE TRUE

ColumnCells(objs) ==
    LET b == BiggestSize(objs)
    IN  [n \in 1..Len(objs) |->
            LET i == n - 1
                x_l == _position[1] + _padding
                y_l == ColumnY(i, b)
            IN  Cell(objs[n], i, 0, x_l, y_l, ColumnVisible(y_l, b))]

\* array_chunks(l, n) of pysg/util for n >= 1: consecutive groups of n, the
\* last one possibly short
ArrayChunks(l, n) ==
    [c \in 1..((Len(l) + n - 1) \div n) |->
        SubSeq(l, (c - 1) * n + 1, Min(c * n, Len(l)))]

\* max_grid_w, line 482
MaxGridW(b) == _size[1] \div (b + _spacing)

\* GcontainerGrid.draw, lines 498-533
GridX(i, b) ==
    IF _fill_direction \in {"TopLeft", "BottomLeft"}
    THEN FromStart(_position[1], i, b)
    ELSE IF _fill_direction \in {"TopRight", "BottomRight"}
    THEN FromEnd(_position[1], _size[1], i, b)
    ELSE 0

\* GridY measuring the two Bottom directions from the top edge as well
GridYFromTop(j, b) ==
    IF _fill_direction \in {"TopLeft", "TopRight", "BottomLeft", "BottomRight"}
    THEN FromStart(_position[2], j, b)
    ELSE 0

GridY(j, b) ==
    IF _fill_direction \in {"TopLeft", "TopRight"}
    THEN FromStart(_position[2], j, b)
    ELSE IF _fill_direction \in {"BottomLeft", "BottomRight"}
    THEN FromEnd(_position[2], _size[2], j, b)
    ELSE 0

\* lines 535-556; the y tests of the two Top directions read the size
\* property, the x tests read _size
GridVisible(x_l, y_l, b) ==
    LET x == _position[1]
        y == _position[2]
    IN  IF _overflow # "Hidden" THEN TRUE
        ELSE IF _fill_direction = "TopLeft"
        THEN ~(x_l + b > x + _size[1]) /\ ~(y_l + b > y + size[2])
        ELSE IF _fill_direction = "TopRight"
        THEN ~(x_l < x) /\ ~(y_l + b > y + size[2])
        ELSE IF _fill_direction = "BottomLeft"
        THEN ~(x_l + b > x + _size[1]) /\ ~(y_l < y)
        ELSE IF _fill_direction = "BottomRight"
        THEN ~(x_l < x) /\ ~(y_l < y)
        ELSE TRUE

\* the two nested loops of lines 492-493 over the chunks from row j0 on
RECURSIVE GridRows(_, _, _)
GridRows(chunks, j0, b) ==
    IF j0 >= Len(chunks) THEN << >>
    ELSE LET o_a == chunks[j0 + 1]
             row == [n \in 1..Len(o_a) |->
                        LET x_l == GridX(n - 1, b)
                            y_l == GridY(j0, b)
                        IN  Cell(o_a[n], n - 1, j0, x_l, y_l,
                                 GridVisible(x_l, y_l, b))]
         IN  row \o GridRows(chunks, j0 + 1, b)

GridCells(objs) ==
    LET b == BiggestSize(objs)
    IN  GridRows(ArrayChunks(objs, MaxGridW(b)), 0, b)

DrawDone(status, cells) ==
    /\ drawn' = [status |-> status, cells |-> cells]
    /\ last' = Call("draw", << >>, status = "raised")
    /\ origin' = NextOrigin("draw")
    /\ UNCHANGED <<config, _objects>>

\* With a column count below 1 the chunking of array_chunks is undefined:
\* it either raises or yields no chunk at all.
Draw ==
    IF Len(_objects) = 0 THEN DrawDone("ok", << >>)
    ELSE IF kind = "Row" THEN DrawDone("ok", RowCells(_objects))
    ELSE IF kind = "Column" THEN DrawDone("ok", ColumnCells(_objects))
    ELSE IF MaxGridW(BiggestSize(_objects)) >= 1
    THEN DrawDone("ok", GridCells(_objects))
    ELSE \/ DrawDone("raised", << >>)
         \/ DrawDone("ok", << >>)

-----------------------------------------------------------------------------

Next ==
    \/ \E s \in SizeInputs : SetSize(s)
    \/ \E p \in PositionInputs : SetPosition(p)
    \/ \E a \in AlignInputs : SetAlign(a)
    \/ \E f \in FillInputs : SetFillDirection(f)
    \/ \E o \in OverflowInputs : SetOverflow(o)
    \/ \E p \in PaddingInputs : SetPadding(p)
    \/ \E s \in SpacingInputs : SetSpacing(s)
    \/ \E d \in Drawables, s \in ShapeSizes : Enter(d, s)
    \/ \E d \in Drawables : Leave(d)
    \/ Draw

Spec == Init /\ [][Next]_vars

-----------------------------------------------------------------------------
(* The layout on its own: a container built with a valid config, the       *)
(* spacing set, drawables entered as they are created, and draw.           *)

LayoutInit ==
    \E k \in Kinds, s \in LayoutSizeInputs, p \in LayoutPositionInputs,
       f \in GFillDirection, o \in GOverflow, pad \in LayoutPaddingInputs :
        Construct(k, s, p, "NoAlign", f, o, pad)

EnterNew(s) ==
    /\ Len(_objects) < LayoutMembers
    /\ Enter(Len(_objects) + 1, s)

LayoutNext ==
    \/ \E s \in LayoutSpacingInputs : SetSpacing(s)
    \/ \E s \in LayoutShapeSizes : EnterNew(s)
    \/ Draw

SpecLayout == LayoutInit /\ [][LayoutNext]_vars

-----------------------------------------------------------------------------
(* The membership on its own: a container of each kind built with one      *)
(* valid config, then enter and leave of up to MaxMembers drawables in any  *)
(* order, with draw and an overflow assignment in between.                 *)

MembersInit ==
    \E k \in Kinds, f \in {"Left", "TopRight"} :
        Construct(k, <<100, 50>>, <<20, 30>>, "NoAlign", f, "Visible", 5)

MembersNext ==
    \/ \E d \in 1..MaxMembers, s \in ShapeSizes : Enter(d, s)
    \/ \E d \in 1..MaxMembers : Leave(d)
    \/ \E o \in OverflowInputs : SetOverflow(o)
    \/ Draw

SpecMembers == MembersInit /\ [][MembersNext]_vars

-----------------------------------------------------------------------------
(* Properties *)

ValidlyBuilt == origin # "invalid"
Returned(op) == last.op = op /\ ~last.raised
NonNegative(p) == p[1] >= 0 /\ p[2] >= 0
Positive(s) == s[1] > 0 /\ s[2] > 0

\* C1: on a validly constructed container, reading size gives the (width,
\* height) most recently accepted by the constructor or the size setter, and
\* reading position the (x, y) most recently accepted; a successful position
\* assignment leaves the value read from size alone.
C1_SizePositionReadback ==
    ValidlyBuilt =>
        /\ size = _size
        /\ position = _position
        /\ (last.op = "__init__") =>
               (size = last.arg.size /\ position = last.arg.position)
        /\ Returned("size") => (size = last.arg)
        /\ Returned("position") => (position = last.arg)

\* C2: a constructor call with a width or height <= 0, or with a negative
\* position component under NoAlign, raises; no constructed container holds a
\* non-positive width or height.
C2_ConstructionValidates ==
    /\ (last.op = "__init__") =>
           ((~Positive(last.arg.size)
             \/ (last.arg.align = "NoAlign" /\ ~NonNegative(last.arg.position)))
            => last.raised)
    /\ Positive(_size)

\* what the data model calls an invalid value for each mutator
InvalidValue(op, arg, align) ==
    CASE op = "size" -> ~Positive(arg)
      [] op = "position" -> (align = "NoAlign" /\ ~NonNegative(arg))
      [] op = "padding" -> arg < 0
      [] op = "spacing" -> arg < 0
      [] op = "align" -> arg \notin GAlign
      [] op = "fill_direction" -> arg \notin GFillDirection
      [] op = "overflow" -> arg \notin GOverflow
      [] OTHER -> FALSE

\* C3: a mutator call with an invalid value raises and leaves every config
\* field and the membership as they were.
C3_InvalidMutationRejected ==
    [][InvalidValue(last'.op, last'.arg, _align) =>
           (last'.raised /\ config' = config /\ _objects' = _objects)]_vars

C3_Witness ==
    /\ last.raised
    /\ last.op = "padding"
    /\ Len(_objects) > 0
    /\ _padding = 5

\* the collapse table of the data model
Collapsed(k, f) ==
    IF k = "Grid"
    THEN CASE f = "Left" -> "TopLeft"
           [] f = "Right" -> "TopRight"
           [] OTHER -> f
    ELSE CASE f \in {"TopLeft", "BottomLeft", "Left"} -> "Left"
           [] f \in {"TopRight", "BottomRight", "Right"} -> "Right"

\* C4: every fill_direction assignment, the constructor's included, stores
\* the collapsed value; a Row or Column holds Left or Right, a Grid one of the
\* four corners.
C4_FillDirectionCollapsed ==
    /\ (kind \in {"Row", "Column"}) => (_fill_direction \in {"Left", "Right"})
    /\ (kind = "Grid") =>
           (_fill_direction \in {"TopLeft", "TopRight", "BottomLeft",
                                 "BottomRight"})
    /\ (last.op = "__init__") =>
           (_fill_direction = Collapsed(kind, last.arg.fill_direction))
    /\ Returned("fill_direction") =>
           (_fill_direction = Collapsed(kind, last.arg))

C4_Witness ==
    /\ Returned("fill_direction")
    /\ kind = "Column"
    /\ last.arg = "BottomRight"
    /\ _fill_direction = "Right"

NoDuplicates(objs) ==
    \A m, n \in 1..Len(objs) : (objs[m].id = objs[n].id) => (m = n)

\* C5: enter appends a drawable that is absent and raises on one that is
\* present; leave removes one that is present, keeping the order of the rest,
\* and raises on one that is absent; a raise and every other call leave the
\* membership as it was; no drawable is present twice and len is the number of
\* drawables present; enter(d) then leave(d) on an empty container empties it.
C5_Membership ==
    [][LET d == last'.arg
           present == last'.arg \in Ids(_objects)
       IN  /\ (last'.op = "enter") =>
                 /\ last'.raised <=> present
                 /\ present => (_objects' = _objects)
                 /\ ~present =>
                       /\ Len(_objects') = Len(_objects) + 1
                       /\ SubSeq(_objects', 1, Len(_objects)) = _objects
                       /\ _objects'[Len(_objects')].id = d
           /\ (last'.op = "leave") =>
                 /\ last'.raised <=> ~present
                 /\ ~present => (_objects' = _objects)
                 /\ present =>
                       /\ Ids(_objects') = Ids(_objects) \ {d}
                       /\ \A m, n \in 1..Len(_objects) :
                             (m < n /\ _objects[m].id # d /\ _objects[n].id # d)
                             => \E a, b \in 1..Len(_objects') :
                                   /\ a < b
                                   /\ _objects'[a] = _objects[m]
                                   /\ _objects'[b] = _objects[n]
           /\ (last'.op \notin {"enter", "leave"}) => (_objects' = _objects)
           /\ NoDuplicates(_objects')
           /\ len' = Cardinality(Ids(_objects'))
           /\ (/\ Returned("enter") /\ Len(_objects) = 1
               /\ last'.op = "leave" /\ d = last.arg)
              => (~last'.raised /\ _objects' = << >>)
      ]_vars

C5_Witness ==
    /\ last.op = "leave"
    /\ ~last.raised
    /\ len = 2
    /\ _objects[1].id > _objects[2].id

\* the maximum member shape size
Biggest == CHOOSE b \in {_objects[n].size : n \in 1..Len(_objects)} :
               \A n \in 1..Len(_objects) : _objects[n].size <= b

\* C6: a Row or Column with overflow Hidden draws the member at index i iff
\* its slot ends inside the far edge (Left anchoring) or starts inside the
\* near edge (Right anchoring) along the primary axis; with Visible it draws
\* every member; culled members stay members; in the scenario of five squares
\* of size 30 in a Row of width 100 the members 0, 1, 2 are drawn at x = 0,
\* 30, 60.
C6_RowColumnCulling ==
    (last.op = "draw" /\ kind \in {"Row", "Column"} /\ Len(_objects) > 0) =>
        LET axis == IF kind = "Row" THEN 1 ELSE 2
            o == _position[axis]
            extent == _size[axis]
            b == Biggest
        IN  /\ Len(drawn.cells) = Len(_objects)
            /\ \A n \in 1..Len(_objects) :
                  LET i == n - 1
                      c == drawn.cells[n]
                  IN  /\ c.obj = _objects[n].id
                      /\ (_overflow = "Visible") => c.visible
                      /\ (_overflow = "Hidden" /\ _fill_direction = "Left") =>
                            (c.visible <=>
                                o + i * b + i * _spacing + _padding + b
                                    <= o + extent)
                      /\ (_overflow = "Hidden" /\ _fill_direction = "Right") =>
                            (c.visible <=>
                                o + extent - i * b - i * _spacing - _padding - b
                                    >= o)
            /\ (/\ kind = "Row" /\ _size = <<100, 50>> /\ _position = <<0, 0>>
                /\ _padding = 0 /\ _spacing = 0 /\ _fill_direction = "Left"
                /\ _overflow = "Hidden" /\ Len(_objects) = 5
                /\ \A n \in 1..5 : _objects[n].size = 30)
               => /\ {n \in 1..5 : drawn.cells[n].visible} = {1, 2, 3}
                  /\ \A n \in 1..3 : drawn.cells[n].x_l = (n - 1) * 30

C6_Witness ==
    /\ last.op = "draw"
    /\ kind = "Row" /\ _size = <<100, 50>> /\ _position = <<0, 0>>
    /\ _padding = 0 /\ _spacing = 0 /\ _fill_direction = "Left"
    /\ _overflow = "Hidden" /\ Len(_objects) = 5
    /\ \A n \in 1..5 : _objects[n].size = 30
    /\ ~drawn.cells[4].visible /\ ~drawn.cells[5].visible

\* C7: a Grid with overflow Hidden culls a cell iff, for the active corner,
\* it passes the right or bottom edge on an axis anchored from the start, or
\* precedes the left or top edge on an axis anchored from the end.
C7_GridCulling ==
    (last.op = "draw" /\ kind = "Grid" /\ _overflow = "Hidden"
     /\ drawn.status = "ok") =>
        \A n \in 1..Len(drawn.cells) :
            LET c == drawn.cells[n]
                b == Biggest
                x == _position[1]
                y == _position[2]
                width == _size[1]
                height == _size[2]
                culled ==
                    CASE _fill_direction = "TopLeft" ->
                            c.x_l + b > x + width \/ c.y_l + b > y + height
                      [] _fill_direction = "TopRight" ->
                            c.x_l < x \/ c.y_l + b > y + height
                      [] _fill_direction = "BottomLeft" ->
                            c.x_l + b > x + width \/ c.y_l < y
                      [] _fill_direction = "BottomRight" ->
                            c.x_l < x \/ c.y_l < y
            IN  c.visible <=> ~culled

\* C8: a Grid with at least one column lays the member at index k out in row
\* k div columns and column k mod columns, at the offsets the data model
\* gives, from the edges the active corner selects; every member gets one
\* cell, no two members share one, and every row but the last is full.
C8_GridCells ==
    (last.op = "draw" /\ kind = "Grid" /\ Len(_objects) > 0
     /\ _size[1] \div (Biggest + _spacing) >= 1) =>
        LET b == Biggest
            columns == _size[1] \div (b + _spacing)
            cells == drawn.cells
            count == Len(_objects)
            xoff(i) == i * b + i * _spacing + _padding
            yoff(j) == j * b + j * _spacing + _padding
        IN  /\ drawn.status = "ok"
            /\ Len(cells) = count
            /\ \A n \in 1..count :
                  LET k == n - 1
                      i == k % columns
                      j == k \div columns
                      c == cells[n]
                  IN  /\ c.obj = _objects[n].id
                      /\ c.i = i /\ c.j = j
                      /\ c.x_l = IF _fill_direction \in {"TopLeft", "BottomLeft"}
                                 THEN _position[1] + xoff(i)
                                 ELSE _position[1] + _size[1] - xoff(i) - b
                      /\ c.y_l = IF _fill_direction \in {"TopLeft", "TopRight"}
                                 THEN _position[2] + yoff(j)
                                 ELSE _position[2] + _size[2] - yoff(j) - b
            /\ \A m, n \in 1..count :
                  (m # n) => /\ <<cells[m].i, cells[m].j>> # <<cells[n].i, cells[n].j>>
                             /\ <<cells[m].x_l, cells[m].y_l>>
                                    # <<cells[n].x_l, cells[n].y_l>>
            /\ \A r \in 0..((count - 1) \div columns) :
                  LET held == Cardinality({n \in 1..count : cells[n].j = r})
                  IN  IF r < (count - 1) \div columns
                      THEN held = columns
                      ELSE held >= 1 /\ held <= columns
            /\ (_size[1] = 100 /\ b = 30 /\ _spacing = 10 /\ count = 5) =>
                  <<Cardinality({n \in 1..5 : cells[n].j = 0}),
                    Cardinality({n \in 1..5 : cells[n].j = 1}),
                    Cardinality({n \in 1..5 : cells[n].j = 2})>> = <<2, 2, 1>>

C8_Witness ==
    /\ last.op = "draw" /\ kind = "Grid"
    /\ _size[1] = 100 /\ _spacing = 10 /\ Len(_objects) = 5
    /\ Biggest = 30
    /\ _fill_direction = "BottomRight"
    /\ drawn.cells[5].j = 2 /\ drawn.cells[5].i = 0

\* C9: on a validly built container draw does not raise and lays out every
\* member; for a Grid with members the column count is at least 1.
C9_DrawCompletes ==
    (ValidlyBuilt /\ last.op = "draw") =>
        /\ ~last.raised
        /\ drawn.status = "ok"
        /\ Len(drawn.cells) = Len(_objects)
        /\ (kind = "Grid" /\ Len(_objects) > 0) =>
               (_size[1] \div (Biggest + _spacing) >= 1)

\* C10 as stated: on a container built with a valid config and used only
\* through position and align assignments, the stored position is
\* non-negative whenever align is NoAlign.
C10_NoAlignPositionInvariant ==
    (origin = "posalign" /\ _align = "NoAlign") => NonNegative(_position)

\* C10 as amended: the rule is enforced when position is assigned: right
\* after a position assignment that succeeded under NoAlign the stored
\* position is the assigned one and is non-negative, and an assignment of a
\* negative position under NoAlign raises.
C10_PositionCheckedOnAssignment ==
    (last.op = "position" /\ _align = "NoAlign") =>
        /\ last.raised <=> ~NonNegative(last.arg)
        /\ ~last.raised => (_position = last.arg /\ NonNegative(_position))

C10_Witness ==
    /\ Returned("position")
    /\ _align = "NoAlign"
    /\ _position = <<20, 30>>

====
